---- MODULE Spec2Model ----
(***************************************************************************)
(* Action optimizers of the Q-learning Agent in src/agent.py:              *)
(*   Agent._cem_optimizer, Agent._uniform_optimizer, Agent.choose_action   *)
(*   and Agent.forward, with the scoring function Agent._forward_q.        *)
(*                                                                         *)
(* Numbers.  Every action component is a real number.  The model keeps    *)
(* exact arithmetic on a grid: a component x is stored as the integer      *)
(* x * Unit, where Unit is divisible by every elite-set size, so that the  *)
(* mean of an elite set is exact.  A floating point NaN is the value NaN.  *)
(* The standard deviation is stored by its square, as an exact fraction    *)
(* <<numerator, denominator>>: 0/0 is NaN, as in the code, where the       *)
(* unbiased estimator of one sample divides 0 by 0.                        *)
(***************************************************************************)
EXTENDS Integers, Sequences, FiniteSets, TLC

\* ------------------------------------------------------------- bounds
MaxActionSize == 2
MaxNumUniform == 2
MaxNumCem == 2
MaxCemIter == 2
MaxBatch == 2
\* largest candidate tensor explored: num_cem * action_size components
MaxCemCells == 4
\* largest candidate tensor explored: batch * num_uniform * action_size
MaxUniCells == 8

RECURSIVE Fact(_)
Fact(n) == IF n <= 1 THEN 1 ELSE n * Fact(n - 1)

\* one unit of the action axis, in model integers
Unit == Fact(MaxNumCem)

\* floating point not-a-number: an integer no computation of the model reaches
NaN == 0 - 1000 * Unit

IsNaN(x) == x = NaN

\* the bounds=(lo, hi) arguments explored (in units): the default, one pair
\* that does not contain 0, and one with lo = hi
BoundsSet == {<<0 - 1, 1>>, <<1, 2>>, <<1, 1>>}

\* the whole units of the action axis that cover every pair of BoundsSet
GridPoints == UNION {b[1]..b[2] : b \in BoundsSet}

\* state embeddings (the output of state_net), opaque
StateIds == {1, 2}

\* parameters of the Q network: the action each state scores highest (units).
\* In the first, state 1 prefers lo of the default bounds and state 2 the
\* middle (candidates on either side of it tie); the second scores every
\* state alike.
Thetas == {<<0 - 1, 0>>, <<1, 1>>}

\* no value (None, an unbound local, an empty tensor)
None == <<>>

Abs(x) == IF x < 0 THEN 0 - x ELSE x

RECURSIVE SumTo(_, _)
\* f[1] + ... + f[n]
SumTo(f, n) == IF n = 0 THEN 0 ELSE f[n] + SumTo(f, n - 1)

RECURSIVE SumOver(_, _)
\* sum of f[j] for j in the set S
SumOver(f, S) ==
    IF S = {} THEN 0
    ELSE LET j == CHOOSE x \in S : TRUE IN f[j] + SumOver(f, S \ {j})

\* ------------------------------------------------------------- state
VARIABLES
    cfg,          \* the Agent's fields: action_size, num_uniform, num_cem,
                  \* cem_iter, cem_elite, bounds
    theta,        \* the parameters of the Q network
    pc,           \* "idle", "cem_enter", "cem_loop", "uni_enter", "uni_loop",
                  \* "fwd_score", "done", "error"
    op,           \* the public method running or last run
    use_cem,      \* choose_action's argument
    hidden,       \* the batch of state embeddings of the call
    actionIsNone, \* forward: action is None
    fwdAction,    \* forward's local: action
    hid,          \* the state rows of the latest _forward_q call
    mu, std, it,  \* _cem_optimizer's locals
    action,       \* _cem_optimizer's candidates of the round
    q,            \* the latest scores
    topk,         \* _cem_optimizer's elite indices
    actions,      \* _uniform_optimizer's candidates
    outputs,      \* _uniform_optimizer's result tensor
    i,            \* _uniform_optimizer's loop index (1-based)
    ret,          \* the value returned to the caller
    nSampled,     \* history: candidate vectors drawn in this call
    nScored,      \* history: _forward_q invocations in this call
    cemCalls,     \* history: _cem_optimizer runs in this call
    uniCalls,     \* history: _uniform_optimizer runs in this call
    written,      \* history: rows of outputs assigned
    prior         \* history: an earlier call on this Agent has ended

vars == <<cfg, theta, pc, op, use_cem, hidden, actionIsNone, fwdAction, hid,
          mu, std, it, action, q, topk, actions, outputs, i, ret,
          nSampled, nScored, cemCalls, uniCalls, written, prior>>

Lo == cfg.bounds[1] * Unit
Hi == cfg.bounds[2] * Unit

\* ------------------------------------------------------------- scorer
\* The Q value of one (state, action) row.  The network is opaque: the model
\* takes a function of the row's own state and action, NaN on a NaN input.
QValue(th, s, a) ==
    IF \E d \in DOMAIN a : IsNaN(a[d]) THEN NaN
    ELSE 0 - SumTo([d \in DOMAIN a |-> Abs(a[d] - th[s] * Unit)], Len(a))

\* _forward_q: row j of the result scores (hidden[j], action[j])
ForwardQ(th, h, a) == [j \in 1..Len(a) |-> QValue(th, h[j], a[j])]

\* a > b as torch orders scores in topk and max: NaN is the greatest
Gt(a, b) == IF IsNaN(b) THEN FALSE ELSE IF IsNaN(a) THEN TRUE ELSE a > b

\* ------------------------------------------------------------- tensors
Min2(a, b) == IF a < b THEN a ELSE b

Max2(a, b) == IF a > b THEN a ELSE b

\* torch.zeros(action_size)
Zeros(n) == [d \in 1..n |-> 0]

\* torch.ones_like(mu), as a squared std: Unit^2 / 1
Ones(n) == [d \in 1..n |-> <<Unit * Unit, 1>>]

StdIsNaN(s) == s[2] = 0

StdIsZero(s) == s[2] > 0 /\ s[1] = 0

StdIsPositive(s) == s[2] > 0 /\ s[1] > 0

\* Tensor.clamp(lo, hi) of one component: min(max(x, lo), hi); NaN stays NaN
Clamp(x, lo, hi) == IF IsNaN(x) THEN NaN ELSE Min2(Max2(x, lo), hi)

\* Values a Gaussian draw of positive std is represented by, before the clamp:
\* one below lo, one above hi, and the grid points strictly between.
RawDraws(lo, hi) ==
    {lo - Unit, hi + Unit} \cup {g * Unit : g \in {x \in GridPoints : lo < x * Unit /\ x * Unit < hi}}

\* torch.normal(mean, std) of one component: the mean when std = 0, NaN when
\* the mean or the std is NaN
NormalDim(m, s, lo, hi) ==
    IF IsNaN(m) \/ StdIsNaN(s) THEN {NaN}
    ELSE IF StdIsZero(s) THEN {m}
    ELSE RawDraws(lo, hi)

\* torch.normal(mu.expand(n, A), std.expand(n, A)): the n x A tensors it can draw
Normal(m, s, n, lo, hi) ==
    LET Rows == {v \in [DOMAIN m -> UNION {NormalDim(m[d], s[d], lo, hi) : d \in DOMAIN m}] :
                    \A d \in DOMAIN m : v[d] \in NormalDim(m[d], s[d], lo, hi)}
    IN  [1..n -> Rows]

\* torch.normal checks std >= 0 on some builds and raises on a NaN std
\* ("normal expects all elements of std >= 0.0"); on the others NaN propagates
NormalMayRaise(s) == \E d \in DOMAIN s : StdIsNaN(s[d])

\* .clamp(*self.bounds) of a tensor
ClampAll(t, lo, hi) == [j \in DOMAIN t |-> [d \in DOMAIN t[j] |-> Clamp(t[j][d], lo, hi)]]

\* torch.topk(q, k): the index sets of size k that no other score beats
\* (ties in any order)
TopK(qv, k) ==
    {S \in SUBSET DOMAIN qv :
        /\ Cardinality(S) = k
        /\ \A e \in S : \A o \in DOMAIN qv \ S : ~Gt(qv[o], qv[e])}

\* action[topk].mean(dim=0), component d
EliteMean(a, tk, d) ==
    IF \E j \in tk : IsNaN(a[j][d]) THEN NaN
    ELSE SumOver([j \in DOMAIN a |-> a[j][d]], tk) \div Cardinality(tk)

\* action[topk].std(dim=0), component d, squared: the unbiased estimator
\* sum (x - mean)^2 / (k - 1) = sum (k x - S)^2 / (k^2 (k - 1)); 0/0 when k = 1
EliteStd(a, tk, d) ==
    LET k == Cardinality(tk)
        S == SumOver([j \in DOMAIN a |-> a[j][d]], tk)
    IN  IF \E j \in tk : IsNaN(a[j][d]) THEN <<0, 0>>
        ELSE <<SumOver([j \in DOMAIN a |-> (k * a[j][d] - S) * (k * a[j][d] - S)], tk),
               k * k * (k - 1)>>

\* hidden.expand(n, -1, -1, -1) succeeds on a batch of 1 or of n
CanExpand(h, n) == Len(h) = 1 \/ Len(h) = n

Expand(h, n) == IF Len(h) = n THEN h ELSE [j \in 1..n |-> h[1]]

\* ------------------------------------------------------------- configurations
\* One family varies the cross-entropy parameters, the other the uniform ones.
CemConfigs ==
    {c \in [action_size : 1..MaxActionSize, num_uniform : {1},
            num_cem : 1..MaxNumCem, cem_iter : 0..MaxCemIter,
            cem_elite : 1..(MaxNumCem + 1), bounds : BoundsSet] :
        /\ c.num_cem * c.action_size <= MaxCemCells
        /\ c.cem_elite <= c.num_cem + 1}

UniConfigs ==
    [action_size : 1..MaxActionSize, num_uniform : 0..MaxNumUniform,
     num_cem : {1}, cem_iter : {1}, cem_elite : {1}, bounds : BoundsSet]

\* the batches of state embeddings a call can receive
Batches == UNION {[1..b -> StateIds] : b \in 1..MaxBatch}

Init ==
    /\ cfg \in CemConfigs \cup UniConfigs
    /\ theta \in Thetas
    /\ pc = "idle"
    /\ op = "none"
    /\ use_cem = FALSE
    /\ hidden = None
    /\ actionIsNone = FALSE
    /\ fwdAction = None
    /\ hid = None
    /\ mu = None
    /\ std = None
    /\ it = 0
    /\ action = None
    /\ q = None
    /\ topk = {}
    /\ actions = None
    /\ outputs = None
    /\ i = 0
    /\ ret = None
    /\ nSampled = 0
    /\ nScored = 0
    /\ cemCalls = 0
    /\ uniCalls = 0
    /\ written = {}
    /\ prior = FALSE

\* a public method can be called when no call is running
Ready == pc = "idle"

\* what a call leaves alone when it starts: no local is bound yet
NewFrame ==
    UNCHANGED <<hid, mu, std, it, action, q, topk, actions, outputs, i, ret,
                nSampled, nScored, cemCalls, uniCalls, written, prior>>

\* ------------------------------------------------------------- _cem_optimizer
\* a start from the mean of a unit vector instead of zero
CemStartMuOnes == [d \in 1..cfg.action_size |-> Unit]

\* mu = torch.zeros(1, self.action_size)
CemStartMu == Zeros(cfg.action_size)

\* a loop that runs once more than cem_iter
CemLoopRunsOnceMore == it <= cfg.cem_iter

\* for _ in range(self.cem_iter)
CemLoopRuns == it < cfg.cem_iter

\* entry of _cem_optimizer(hidden): the expand, then mu and std; expand raises
\* on a batch that is neither 1 nor num_cem
CemEnter ==
    /\ pc = "cem_enter"
    /\ cemCalls' = cemCalls + 1
    /\ IF CanExpand(hidden, cfg.num_cem)
       THEN /\ hid' = Expand(hidden, cfg.num_cem)
            /\ mu' = CemStartMu
            /\ std' = Ones(cfg.action_size)
            /\ pc' = "cem_loop"
       ELSE /\ pc' = "error"
            /\ UNCHANGED <<hid, mu, std>>
    /\ UNCHANGED <<cfg, theta, op, use_cem, hidden, actionIsNone, fwdAction,
                   it, action, q, topk, actions, outputs, i, ret,
                   nSampled, nScored, uniCalls, written, prior>>

\* one pass of the loop body: sample, clamp, score, topk, re-estimate
CemIter ==
    /\ pc = "cem_loop"
    /\ CemLoopRuns
    /\ \/ /\ NormalMayRaise(std)
          /\ pc' = "error"
          /\ UNCHANGED <<action, q, topk, mu, std, it, nSampled, nScored>>
       \/ \E raw \in Normal(mu, std, cfg.num_cem, Lo, Hi) :
            LET a  == ClampAll(raw, Lo, Hi)
                qv == ForwardQ(theta, hid, a)
            IN  /\ action' = a
                /\ q' = qv
                /\ nSampled' = nSampled + cfg.num_cem
                /\ nScored' = nScored + 1
                /\ IF cfg.cem_elite > cfg.num_cem
                   THEN /\ pc' = "error"
                        /\ UNCHANGED <<topk, mu, std, it>>
                   ELSE \E tk \in TopK(qv, cfg.cem_elite) :
                            /\ topk' = tk
                            /\ mu' = [d \in 1..cfg.action_size |-> EliteMean(a, tk, d)]
                            /\ std' = [d \in 1..cfg.action_size |-> EliteStd(a, tk, d)]
                            /\ it' = it + 1
                            /\ pc' = pc
    /\ UNCHANGED <<cfg, theta, op, use_cem, hidden, actionIsNone, fwdAction, hid,
                   actions, outputs, i, ret, cemCalls, uniCalls, written, prior>>

\* return mu (a batch of one row)
CemReturn ==
    /\ pc = "cem_loop"
    /\ ~CemLoopRuns
    /\ ret' = <<mu>>
    /\ pc' = "done"
    /\ UNCHANGED <<cfg, theta, op, use_cem, hidden, actionIsNone, fwdAction, hid,
                   mu, std, it, action, q, topk, actions, outputs, i,
                   nSampled, nScored, cemCalls, uniCalls, written, prior>>

\* ------------------------------------------------------------- _uniform_optimizer
\* Tensor.uniform_(lo, hi) of one component: a grid point of [lo, hi)
UniformVals(lo, hi) ==
    IF lo = hi THEN {lo}
    ELSE {g * Unit : g \in {x \in GridPoints : lo <= x * Unit /\ x * Unit < hi}}

\* torch.zeros((B, num_uniform, action_size)).uniform_(*self.bounds)
UniformDraws(b, n, asz, lo, hi) == [1..b -> [1..n -> [1..asz -> UniformVals(lo, hi)]]]

\* every state scored with the first state's embedding
HiddenRowFirst(h, r, n) == [j \in 1..n |-> h[1]]

\* hidden[i:i+1].expand(self.num_uniform, -1, -1, -1)
HiddenRow(h, r, n) == [j \in 1..n |-> h[r]]

\* q.max(0)[1]: an index of the greatest score
ArgMax(qv) == {j \in DOMAIN qv : \A o \in DOMAIN qv : ~Gt(qv[o], qv[j])}

\* a loop that stops one state early
UniformLoopStopsEarly == i < Len(hidden)

\* for i in range(hidden.size(0))
UniformLoopRuns == i <= Len(hidden)

\* entry of _uniform_optimizer(hidden): outputs, then all the samples
UniformEnter ==
    /\ pc = "uni_enter"
    /\ uniCalls' = uniCalls + 1
    /\ outputs' = [r \in 1..Len(hidden) |-> Zeros(cfg.action_size)]
    /\ actions' \in UniformDraws(Len(hidden), cfg.num_uniform, cfg.action_size, Lo, Hi)
    /\ i' = 1
    /\ nSampled' = nSampled + Len(hidden) * cfg.num_uniform
    /\ pc' = "uni_loop"
    /\ UNCHANGED <<cfg, theta, op, use_cem, hidden, actionIsNone, fwdAction, hid,
                   mu, std, it, action, q, topk, ret,
                   nScored, cemCalls, written, prior>>

\* one pass of the loop body: expand the state, score, keep the best candidate;
\* with num_uniform = 0 the scoring of the empty candidate batch raises (the
\* view in _forward_q, or max over no score)
UniformIter ==
    /\ pc = "uni_loop"
    /\ UniformLoopRuns
    /\ LET hidden_ == HiddenRow(hidden, i, cfg.num_uniform)
           qv      == ForwardQ(theta, hidden_, actions[i])
       IN  /\ hid' = hidden_
           /\ q' = qv
           /\ nScored' = nScored + 1
           /\ IF cfg.num_uniform = 0
              THEN /\ pc' = "error"
                   /\ UNCHANGED <<outputs, written, i>>
              ELSE \E j \in ArgMax(qv) :
                       /\ outputs' = [outputs EXCEPT ![i] = actions[i][j]]
                       /\ written' = written \cup {i}
                       /\ i' = i + 1
                       /\ pc' = pc
    /\ UNCHANGED <<cfg, theta, op, use_cem, hidden, actionIsNone, fwdAction,
                   mu, std, it, action, topk, actions, ret,
                   nSampled, cemCalls, uniCalls, prior>>

\* return outputs: to choose_action's caller, or into forward's action
UniformReturn ==
    /\ pc = "uni_loop"
    /\ ~UniformLoopRuns
    /\ IF op = "forward"
       THEN /\ fwdAction' = outputs
            /\ pc' = "fwd_score"
            /\ ret' = ret
       ELSE /\ ret' = outputs
            /\ pc' = "done"
            /\ fwdAction' = fwdAction
    /\ UNCHANGED <<cfg, theta, op, use_cem, hidden, actionIsNone, hid,
                   mu, std, it, action, q, topk, actions, outputs, i,
                   nSampled, nScored, cemCalls, uniCalls, written, prior>>

\* ------------------------------------------------------------- choose_action
\* a dispatch that ignores use_cem
DispatchCemAlways(uc) == TRUE

\* if use_cem
DispatchCem(uc) == uc

ChooseAction(h, uc) ==
    /\ Ready
    /\ ~uc => Len(h) * cfg.num_uniform * cfg.action_size <= MaxUniCells
    /\ op' = "choose_action"
    /\ use_cem' = uc
    /\ hidden' = h
    /\ actionIsNone' = FALSE
    /\ fwdAction' = None
    /\ NewFrame
    /\ pc' = IF DispatchCem(uc) THEN "cem_enter" ELSE "uni_enter"
    /\ UNCHANGED <<cfg, theta>>

\* ------------------------------------------------------------- forward
\* forward(image, cur_time): action is None, the uniform optimizer finds it
ForwardOptimize(h) ==
    /\ Ready
    /\ Len(h) * cfg.num_uniform * cfg.action_size <= MaxUniCells
    /\ op' = "forward"
    /\ use_cem' = FALSE
    /\ hidden' = h
    /\ actionIsNone' = TRUE
    /\ fwdAction' = None
    /\ NewFrame
    /\ pc' = "uni_enter"
    /\ UNCHANGED <<cfg, theta>>

\* forward(image, cur_time, action): a recorded action, every component v
ForwardGiven(h, v) ==
    /\ Ready
    /\ op' = "forward"
    /\ use_cem' = FALSE
    /\ hidden' = h
    /\ actionIsNone' = FALSE
    /\ fwdAction' = [r \in 1..Len(h) |-> [d \in 1..cfg.action_size |-> v * Unit]]
    /\ NewFrame
    /\ pc' = "fwd_score"
    /\ UNCHANGED <<cfg, theta>>

\* return self._forward_q(hidden, action)
ForwardScore ==
    /\ pc = "fwd_score"
    /\ hid' = hidden
    /\ q' = ForwardQ(theta, hidden, fwdAction)
    /\ ret' = ForwardQ(theta, hidden, fwdAction)
    /\ nScored' = nScored + 1
    /\ pc' = "done"
    /\ UNCHANGED <<cfg, theta, op, use_cem, hidden, actionIsNone, fwdAction,
                   mu, std, it, action, topk, actions, outputs, i,
                   nSampled, cemCalls, uniCalls, written, prior>>

\* ------------------------------------------------------------- the caller
\* The call is over (a value returned or an exception raised): its frame is
\* gone, the Agent keeps its fields and the network's parameters.
Finish ==
    /\ pc \in {"done", "error"}
    /\ pc' = "idle"
    /\ op' = "none"
    /\ use_cem' = FALSE
    /\ hidden' = None
    /\ actionIsNone' = FALSE
    /\ fwdAction' = None
    /\ hid' = None
    /\ mu' = None
    /\ std' = None
    /\ it' = 0
    /\ action' = None
    /\ q' = None
    /\ topk' = {}
    /\ actions' = None
    /\ outputs' = None
    /\ i' = 0
    /\ ret' = None
    /\ nSampled' = 0
    /\ nScored' = 0
    /\ cemCalls' = 0
    /\ uniCalls' = 0
    /\ written' = {}
    /\ prior' = TRUE
    /\ UNCHANGED <<cfg, theta>>

\* ------------------------------------------------------------- specification
Next ==
    \/ \E h \in Batches : \E uc \in BOOLEAN : ChooseAction(h, uc)
    \/ \E h \in Batches : ForwardOptimize(h)
    \/ \E h \in Batches : \E v \in cfg.bounds[1]..cfg.bounds[2] : ForwardGiven(h, v)
    \/ CemEnter
    \/ CemIter
    \/ CemReturn
    \/ UniformEnter
    \/ UniformIter
    \/ UniformReturn
    \/ ForwardScore
    \/ Finish

Spec == Init /\ [][Next]_vars

\* ------------------------------------------------------------- properties
\* The configurations the specification calls valid: action_size > 0,
\* num_uniform > 0, num_cem > 0, cem_iter >= 0, 1 <= cem_elite <= num_cem, lo < hi.
ValidCfg ==
    /\ cfg.action_size > 0
    /\ cfg.num_uniform > 0
    /\ cfg.num_cem > 0
    /\ cfg.cem_iter >= 0
    /\ cfg.cem_elite >= 1
    /\ cfg.cem_elite <= cfg.num_cem
    /\ cfg.bounds[1] < cfg.bounds[2]

\* a defined number within [lo, hi]
InBounds(x) == ~IsNaN(x) /\ Lo <= x /\ x <= Hi

\* _uniform_optimizer has returned in this call
UniformReturned == uniCalls = 1 /\ pc \in {"fwd_score", "done"}

\* what it returned: forward binds it to action, choose_action returns it
UniformResult == IF op = "forward" THEN fwdAction ELSE ret

\* C1: under a valid configuration, a call of the uniform optimizer that
\* returns yields exactly one action vector per input state, each row assigned
\* by the loop (not left at its placeholder) and every component within [lo, hi].
C1_UniformReturnsBatchInBounds ==
    (ValidCfg /\ UniformReturned) =>
        /\ Len(UniformResult) = Len(hidden)
        /\ \A r \in 1..Len(hidden) :
              /\ r \in written
              /\ Len(UniformResult[r]) = cfg.action_size
              /\ \A d \in 1..cfg.action_size : InBounds(UniformResult[r][d])

\* C1 witness: a valid uniform call on two states returned two different vectors
C1_Witness ==
    /\ ValidCfg
    /\ UniformReturned
    /\ op = "choose_action"
    /\ Len(hidden) = 2
    /\ cfg.num_uniform = 2
    /\ ret[1] # ret[2]

\* C3: the action returned for state r is one of the candidates drawn for
\* state r, and under the scorer paired with state r's embedding it scores at
\* least as high as every candidate drawn for state r.
C3_UniformPicksOwnArgmax ==
    UniformReturned =>
        \A r \in 1..Len(hidden) :
            \E j \in 1..cfg.num_uniform :
                /\ UniformResult[r] = actions[r][j]
                /\ \A k \in 1..cfg.num_uniform :
                      QValue(theta, hidden[r], UniformResult[r])
                          >= QValue(theta, hidden[r], actions[r][k])

\* C3 witness: two different states, the second with two different candidates
\* that the scorer tells apart
C3_Witness ==
    /\ UniformReturned
    /\ Len(hidden) = 2
    /\ hidden[1] # hidden[2]
    /\ theta[hidden[1]] # theta[hidden[2]]
    /\ cfg.num_uniform = 2
    /\ QValue(theta, hidden[2], actions[2][1]) # QValue(theta, hidden[2], actions[2][2])

\* C7: with cem_iter = 0 the cross-entropy optimizer samples nothing, never
\* invokes the scorer, does not fail on a single state, and returns the zero
\* vector of dimension action_size, whatever num_cem, cem_elite and bounds are.
C7_ZeroIterationsReturnZero ==
    (cemCalls = 1 /\ cfg.cem_iter = 0) =>
        /\ nSampled = 0
        /\ nScored = 0
        /\ Len(hidden) = 1 => pc # "error"
        /\ pc = "done" => ret = <<Zeros(cfg.action_size)>>

\* C7 witness: such a call returned, with bounds that do not contain 0 and
\* cem_elite above num_cem
C7_Witness ==
    /\ cemCalls = 1
    /\ cfg.cem_iter = 0
    /\ pc = "done"
    /\ cfg.bounds = <<1, 2>>
    /\ cfg.num_cem = 2
    /\ cfg.cem_elite > cfg.num_cem
    /\ ret = <<Zeros(cfg.action_size)>>

\* C8: no step of any call changes the Agent's configuration fields, and
\* every cross-entropy call, also after earlier calls, starts from mean 0 and
\* std 1 with no iteration done; between calls no local of a call is bound.
C8_NoStateAcrossCalls ==
    [][/\ cfg' = cfg
       /\ (pc = "cem_enter" /\ pc' = "cem_loop") =>
             /\ mu' = Zeros(cfg.action_size)
             /\ std' = Ones(cfg.action_size)
             /\ it' = 0
       /\ pc' = "idle" => (mu' = None /\ std' = None /\ outputs' = None /\ ret' = None)
      ]_vars

\* C8 witness: a cross-entropy call that follows an earlier call stands at its
\* first iteration
C8_Witness ==
    /\ prior
    /\ pc = "cem_loop"
    /\ it = 0
    /\ cfg.cem_iter > 0
    /\ mu = Zeros(cfg.action_size)

\* an optimizer runs, or is about to, in the call at hand
RunsCem == pc = "cem_enter" \/ cemCalls > 0

RunsUniform == pc = "uni_enter" \/ uniCalls > 0

\* the dispatch of the call at hand is behind it
Dispatched == pc \notin {"idle", "cem_enter", "uni_enter"}

\* what C6 holds of the code: the optimizer is selected by the arguments alone,
\* and the uniform optimizer runs on the batch the call received
DispatchByArguments ==
    /\ (op = "choose_action" /\ use_cem) =>
          /\ ~RunsUniform
          /\ RunsCem
          /\ Dispatched => cemCalls = 1
    /\ (op = "choose_action" /\ ~use_cem) =>
          /\ ~RunsCem
          /\ RunsUniform
          /\ Dispatched => (uniCalls = 1 /\ Len(outputs) = Len(hidden))
    /\ (op = "forward" /\ actionIsNone) =>
          /\ ~RunsCem
          /\ RunsUniform
          /\ Dispatched => (uniCalls = 1 /\ Len(outputs) = Len(hidden))
          /\ pc = "done" => (fwdAction = outputs /\ ret = ForwardQ(theta, hidden, outputs))
    /\ (op = "forward" /\ ~actionIsNone) =>
          /\ ~RunsCem
          /\ ~RunsUniform
          /\ outputs = None
          /\ pc = "done" => ret = ForwardQ(theta, hidden, fwdAction)

\* C6 (amended): choose_action runs the cross-entropy optimizer and never the
\* uniform one when use_cem is true, and the uniform optimizer, on the whole
\* batch it was given, and never the cross-entropy one when use_cem is false;
\* forward without an action runs the uniform optimizer exactly once and scores
\* its result; forward with an action runs no optimizer and scores that action.
C6_DispatchByArguments == DispatchByArguments

\* C6 as stated: in addition, the uniform optimizer that choose_action runs
\* works on a batch of size 1.
C6_Original ==
    /\ DispatchByArguments
    /\ (op = "choose_action" /\ ~use_cem /\ uniCalls = 1) => Len(outputs) = 1

\* C6 witness: choose_action with use_cem false returned the uniform
\* optimizer's result for a batch of two states
C6_Witness ==
    /\ op = "choose_action"
    /\ ~use_cem
    /\ pc = "done"
    /\ uniCalls = 1
    /\ cemCalls = 0
    /\ Len(hidden) = 2
    /\ Len(ret) = 2

\* C2: under every valid configuration, a cross-entropy call on one state
\* embedding returns exactly one action vector whose every component is a
\* defined number within [lo, hi].
C2_CemReturnsInBounds ==
    (ValidCfg /\ op = "choose_action" /\ use_cem /\ Len(hidden) = 1
        /\ pc \in {"done", "error"}) =>
        /\ pc = "done"
        /\ Len(ret) = 1
        /\ \A d \in 1..cfg.action_size : InBounds(ret[1][d])

\* C4: under an invalid configuration an optimizer call is rejected at its
\* entry: nothing is sampled, the scorer is not invoked, nothing is returned.
C4_InvalidConfigRejected ==
    (~ValidCfg /\ cemCalls + uniCalls > 0) =>
        /\ pc = "error"
        /\ nSampled = 0
        /\ nScored = 0

\* C5: at the start of every sampling round of a cross-entropy call every
\* component of the std is a defined, strictly positive number.
C5_StdPositiveEachRound ==
    (pc = "cem_loop" /\ CemLoopRuns) =>
        \A d \in 1..cfg.action_size : StdIsPositive(std[d])

\* a >= b on floating point scores: false when either is NaN
Geq(a, b) == ~IsNaN(a) /\ ~IsNaN(b) /\ a >= b

\* m is the arithmetic mean of column d of rows S of a
IsMeanOf(m, a, S, d) ==
    /\ ~IsNaN(m)
    /\ \A j \in S : ~IsNaN(a[j][d])
    /\ m * Cardinality(S) = SumOver([j \in DOMAIN a |-> a[j][d]], S)

\* C9: under a valid configuration, on one state: after every iteration the
\* elite set is cem_elite of the num_cem clamped candidates, every elite
\* scoring at least as high as every other candidate, and the mean is the
\* per-dimension arithmetic mean of the elite; with cem_iter >= 1 the value
\* returned is the mean of the final iteration; with cem_elite = num_cem the
\* call does not fail and the mean is the mean of all candidates.
C9_EliteMean ==
    (ValidCfg /\ op = "choose_action" /\ use_cem /\ Len(hidden) = 1 /\ cemCalls = 1) =>
        /\ (pc \in {"cem_loop", "done"} /\ it >= 1) =>
              /\ Len(action) = cfg.num_cem
              /\ topk \subseteq 1..cfg.num_cem
              /\ Cardinality(topk) = cfg.cem_elite
              /\ \A e \in topk : \A o \in (1..cfg.num_cem) \ topk : Geq(q[e], q[o])
              /\ \A d \in 1..cfg.action_size : IsMeanOf(mu[d], action, topk, d)
        /\ (pc = "done" /\ cfg.cem_iter >= 1) => (it = cfg.cem_iter /\ ret = <<mu>>)
        /\ cfg.cem_elite = cfg.num_cem =>
              /\ pc # "error"
              /\ (pc \in {"cem_loop", "done"} /\ it >= 1) =>
                    \A d \in 1..cfg.action_size :
                        IsMeanOf(mu[d], action, 1..cfg.num_cem, d)

\* C10: in every cross-entropy call reached through choose_action, whatever
\* the batch size of the input, every scorer invocation pairs the num_cem
\* candidates with one and the same state embedding.
C10_CemScoresOneState ==
    (op = "choose_action" /\ use_cem /\ nScored > 0) =>
        /\ Len(hid) = cfg.num_cem
        /\ Len(action) = cfg.num_cem
        /\ \A j \in 1..Len(hid) : \A k \in 1..Len(hid) : hid[j] = hid[k]

====
